---- MODULE Spec2Model ----
(***************************************************************************)
(* Model of peak_finder (src/anlffr/preproc.py, lines 90-251): the noise   *)
(* tolerant peak finding routine, as one call frame executed step by step, *)
(* followed by a second call the caller makes on the same buffer.          *)
(*                                                                         *)
(* Numbers.  Signal samples are integers (exactly representable floats).   *)
(* The threshold is kept in quarters of a sample unit (ThreshDen), so the  *)
(* default (max - min) / 4 is exact; every comparison of the source that   *)
(* involves thresh is written with both sides multiplied by ThreshDen.     *)
(* The derivative dx0 is kept in units of the machine epsilon, one sample  *)
(* unit being EpsDen epsilons: only the signs of products of dx0 entries   *)
(* are ever read, and in the modelled range no product underflows.         *)
(***************************************************************************)
EXTENDS Integers, Sequences, FiniteSets

\* ---------------------------------------------------------------- bounds
MaxLen == 4
MaxVal == 1
MaxThresh == 1
MaxRank == 2
DeepLen == 6
DeepVal == 2

\* ------------------------------------------------------ program constants
ThreshDen == 4
EpsDen == 2

VARIABLES
    \* the caller's array object and the arguments of the call
    buf, ndim, dtype, threshArg, extrema,
    \* the frame of peak_finder
    pc, x0, s, thresh, dx0, ind, x, length, min_mag,
    temp_mag, temp_loc, found_peak, left_min, ii,
    maxPeaks, peak_loc, peak_mag, c_ind,
    peak_inds, peak_mags, out_type,
    \* what the call gave back, and the caller's record of the first call
    ret, calls, follow, first, passed

args == <<buf, ndim, dtype, threshArg, extrema>>
extr == <<dx0, ind, x, length, min_mag>>
scan == <<temp_mag, temp_loc, found_peak, left_min, ii,
          maxPeaks, peak_loc, peak_mag, c_ind>>
outp == <<peak_inds, peak_mags, out_type>>
caller == <<calls, follow, first, passed>>
vars == <<args, pc, x0, s, thresh, extr, scan, outp, ret, caller>>

\* ------------------------------------------------------------- helpers
Range(q) == {q[i] : i \in DOMAIN q}

SeqMin(q) == CHOOSE v \in Range(q) : \A w \in Range(q) : v <= w

SeqMax(q) == CHOOSE v \in Range(q) : \A w \in Range(q) : v >= w

\* q[i] with the 0-based index of the source
At(q, i) == q[i + 1]

\* q[a:] of the source
From(q, a) == IF a >= Len(q) THEN <<>> ELSE SubSeq(q, a + 1, Len(q))

Sign(v) == IF v > 0 THEN 1 ELSE IF v < 0 THEN -1 ELSE 0

Scale(e, q) == [i \in DOMAIN q |-> e * q[i]]

\* temp_loc before its first assignment (line 205)
Unbound == 0 - 1

SeqsUpTo(S, n) == UNION {[1..k -> S] : k \in 1..n}

\* ------------------------------------------------- the inputs of a call
Samples == (0 - MaxVal)..MaxVal

Signals == SeqsUpTo(Samples, MaxLen)

Ranks == 1..MaxRank

Dtypes == {"int", "float"}

\* thresh=None is <<>>; a given threshold t is <<ThreshDen * t>>
Thresholds == {<<>>} \cup {<<ThreshDen * k>> : k \in 0..MaxThresh}

Extremas == (0 - 1)..2

NoResult == [status |-> "running", inds |-> <<>>, mags |-> <<>>]

Raised(e) == [status |-> e, inds |-> <<>>, mags |-> <<>>]

\* --------------------------------------------- lines 129-142: the entry
\* mutant of ShapeOk: the bound of the test off by one (ndim > 2)
ShapeOkOffByOne(nd) == ~(nd > 2)

\* line 131: the test that lets the call go on
ShapeOk(nd) == ~(nd >= 2)

\* mutant of DefaultThresh: (max - min) / 2
DefaultThreshHalf(q) == 2 * (SeqMax(q) - SeqMin(q))

\* line 137: (np.max(x0) - np.min(x0)) / 4, in quarters of a sample unit
DefaultThresh(q) == SeqMax(q) - SeqMin(q)

\* mutant of PolarityOk: -1 <= extrema <= 1
PolarityOkLoose(e) == (0 - 1) <= e /\ e <= 1

\* line 139: extrema in [-1, 1]
PolarityOk(e) == e \in {0 - 1, 1}

\* mutant of NormalizeSign: x0 *= extrema, which writes the caller's array
NormalizeSignInPlace(b, e) == [x0 |-> Scale(e, b), buf |-> Scale(e, b)]

\* line 142: x0 = extrema * x0 binds the local name to a new array; the
\* caller's array (which np.asanyarray at line 129 did not copy) is not
\* written
NormalizeSign(b, e) == [x0 |-> Scale(e, b), buf |-> b]

\* ------------------------------ lines 144-156: the candidate extraction
\* line 144: np.diff(x0), in epsilons
Diff(q) == IF Len(q) <= 1 THEN <<>>
           ELSE [i \in 1..(Len(q) - 1) |-> EpsDen * (q[i + 1] - q[i])]

\* line 146: what the assignment of -np.finfo(float).eps stores in an array
\* of dx0's dtype: -eps in a float array; in an integer array the value is
\* cast to the array's dtype, and -eps truncates to 0
ZeroDerivative(dt) == IF dt = "float" THEN 0 - 1 ELSE 0

\* line 146: dx0[dx0 == 0] = -eps
Perturb(dx, dt) == [i \in DOMAIN dx |-> IF dx[i] = 0 THEN ZeroDerivative(dt) ELSE dx[i]]

\* line 148: dx0[:-1] * dx0[1:] < 0 at position k-1 (0-based) of the products
SignChangeAt(dx, k) == dx[k] * dx[k + 1] < 0

\* line 148: np.where(...)[0] + 1, the 0-based sample indices, increasing
SignChanges(dx) ==
    IF Len(dx) <= 1 THEN <<>>
    ELSE LET all == [k \in 1..(Len(dx) - 1) |-> k]
             Test(k) == SignChangeAt(dx, k)
         IN SelectSeq(all, Test)

\* line 151: np.concatenate((x0[:1], x0[ind], x0[-1:]))
CandidateValues(q, idx) ==
    <<q[1]>> \o [j \in DOMAIN idx |-> At(q, idx[j])] \o <<q[Len(q)]>>

\* line 152: np.concatenate(([0], ind, [s - 1]))
CandidateInd(idx, n) == <<0>> \o idx \o <<n - 1>>

\* ------------------------------------- lines 158-187: the scan's set-up
\* line 168: np.sign(np.diff(x[:3]))
SignDx(q) == <<Sign(q[2] - q[1]), Sign(q[3] - q[2])>>

\* line 169: the first point is larger than or equal to the second
FirstNotSmaller(sd) == sd[1] <= 0

\* lines 171, 178: the first two transitions do not alternate
SameSign(sd) == sd[1] = sd[2]

\* lines 172-173: np.concatenate((q[:1], q[2:]))
DropSecond(q) == <<q[1]>> \o From(q, 2)

\* lines 179-180: q[1:]
DropFirst(q) == From(q, 1)

\* mutant of MaxPeaksOf: int(length / 2.0)
MaxPeaksFloor(n) == n \div 2

\* line 184: int(ceil(length / 2.0))
MaxPeaksOf(n) == (n + 1) \div 2

\* lines 185-186: np.zeros(n)
Zeros(n) == [i \in 1..n |-> 0]

\* ------------------------------------------ lines 189-228: the tests
\* mutant of LoopTest: ii < length
LoopTestOffByOne(i, n) == i < n

\* line 189: while ii < (length - 1)
LoopTest(i, n) == i < n - 1

\* line 199: ii == length - 1
LastCandidate(i, n) == i = n - 1

\* lines 193-194: peak_mag[-1] is the LAST slot of the preallocated array
LastSlot(pm) == pm[Len(pm)]

\* lines 193-194
ResetCond(found, xi, last, lmin, th) ==
    found /\ ((xi > last) \/ (ThreshDen * lmin < ThreshDen * last - th))

\* mutant of NewPending: >= in place of > in the threshold test
NewPendingInclusive(xi, tmag, lmin, th) ==
    (xi > tmag) /\ (ThreshDen * xi >= ThreshDen * lmin + th)

\* line 204
NewPending(xi, tmag, lmin, th) ==
    (xi > tmag) /\ (ThreshDen * xi > ThreshDen * lmin + th)

\* mutant of ConfirmCond: the test of found_peak left out
ConfirmCondIgnoringFound(found, tmag, th, xi) ==
    ThreshDen * tmag > th + ThreshDen * xi

\* mutant of ConfirmCond: >= in place of >
ConfirmCondInclusive(found, tmag, th, xi) ==
    ~found /\ (ThreshDen * tmag >= th + ThreshDen * xi)

\* line 210
ConfirmCond(found, tmag, th, xi) ==
    ~found /\ (ThreshDen * tmag > th + ThreshDen * xi)

\* mutant of EndPointCond: the threshold test left out
EndPointCondNoThresh(xl, tmag, lmin, th) == xl > tmag

\* line 220
EndPointCond(xl, tmag, lmin, th) ==
    (xl > tmag) /\ (ThreshDen * xl > ThreshDen * lmin + th)

\* mutant of PendingCond: the test of found_peak left out
PendingCondIgnoringFound(found, tmag, mn) == tmag > mn

\* line 224
PendingCond(found, tmag, mn) == ~found /\ tmag > mn

\* mutant of Gather: peak_loc[:c_ind], candidate positions given as sample
\* indices
GatherNoMap(idx, loc, n) == [k \in 1..n |-> loc[k]]

\* line 231: ind[peak_loc[:c_ind]]
Gather(idx, loc, n) == [k \in 1..n |-> At(idx, loc[k])]

\* line 232: peak_mag[:c_ind]
Prefix(q, n) == [k \in 1..n |-> q[k]]

\* line 234: np.argmax(x), the first position (0-based) of the maximum
ArgMax(q) == (CHOOSE k \in DOMAIN q :
                 /\ q[k] = SeqMax(q)
                 /\ \A j \in 1..(k - 1) : q[j] < q[k]) - 1

\* line 236
DegenerateCond(pm, mn, th) == ThreshDen * pm > ThreshDen * mn + th

\* line 244: peak_mags *= -1.0 is defined for an array and for a scalar; a
\* list cannot be multiplied by a float
CanNegate(ty) == ty # "list"

\* line 248: len(peak_inds) is defined for an array and for a list; a numpy
\* integer scalar has no len()
HasLen(ty) == ty # "scalar"

\* ------------------------------------------------------------ the call
\* the locals of a frame that has not run yet
FreshFrame ==
    /\ x0 = <<>> /\ s = 0 /\ thresh = 0
    /\ dx0 = <<>> /\ ind = <<>> /\ x = <<>> /\ length = 0 /\ min_mag = 0
    /\ temp_mag = 0 /\ temp_loc = Unbound /\ found_peak = FALSE
    /\ left_min = 0 /\ ii = 0
    /\ maxPeaks = 0 /\ peak_loc = <<>> /\ peak_mag = <<>> /\ c_ind = 0
    /\ peak_inds = <<>> /\ peak_mags = <<>> /\ out_type = "none"
    /\ ret = NoResult

Init ==
    /\ buf \in Signals
    /\ ndim \in Ranks
    /\ dtype \in Dtypes
    /\ threshArg \in Thresholds
    /\ extrema \in Extremas
    /\ pc = "entry"
    /\ FreshFrame
    /\ calls = 1 /\ follow = "none" /\ first = NoResult /\ passed = buf

\* an exception leaves the frame
Raise(e) == pc' = "done" /\ ret' = Raised(e)

\* lines 129-134
CheckShape ==
    /\ pc = "entry"
    /\ IF ShapeOk(ndim)
       THEN /\ x0' = buf
            /\ s' = Len(buf)
            /\ pc' = "thresh"
            /\ UNCHANGED ret
       ELSE /\ Raise("ValueError")
            /\ UNCHANGED <<x0, s>>
    /\ UNCHANGED <<args, thresh, extr, scan, outp, caller>>

\* lines 136-137
SetThresh ==
    /\ pc = "thresh"
    /\ thresh' = IF threshArg = <<>> THEN DefaultThresh(x0) ELSE threshArg[1]
    /\ pc' = "polarity"
    /\ UNCHANGED <<args, x0, s, extr, scan, outp, ret, caller>>

\* line 139
CheckPolarity ==
    /\ pc = "polarity"
    /\ IF PolarityOk(extrema)
       THEN pc' = "normalize" /\ UNCHANGED ret
       ELSE Raise("AssertionError")
    /\ UNCHANGED <<args, x0, s, thresh, extr, scan, outp, caller>>

\* lines 141-142; x0 and the caller's array are one object until here
Normalize ==
    /\ pc = "normalize"
    /\ IF extrema = 0 - 1
       THEN LET r == NormalizeSign(buf, extrema)
            IN x0' = r.x0 /\ buf' = r.buf
       ELSE UNCHANGED <<x0, buf>>
    /\ pc' = "extract"
    /\ UNCHANGED <<ndim, dtype, threshArg, extrema, s, thresh, extr, scan,
                   outp, ret, caller>>

\* lines 144-156
Extract ==
    /\ pc = "extract"
    /\ dx0' = Perturb(Diff(x0), dtype)
    /\ ind' = CandidateInd(SignChanges(dx0'), s)
    /\ x' = CandidateValues(x0, SignChanges(dx0'))
    /\ length' = Len(x')
    /\ min_mag' = SeqMin(x')
    /\ pc' = "classify"
    /\ UNCHANGED <<args, x0, s, thresh, scan, outp, ret, caller>>

\* lines 158-187: more than two candidates
Bootstrap ==
    /\ pc = "classify"
    /\ length > 2
    /\ temp_mag' = min_mag
    /\ found_peak' = FALSE
    /\ left_min' = min_mag
    /\ LET signDx == SignDx(x)
           drop == SameSign(signDx)
       IN /\ IF FirstNotSmaller(signDx)
             THEN /\ ii' = 0 - 1
                  /\ x' = IF drop THEN DropSecond(x) ELSE x
                  /\ ind' = IF drop THEN DropSecond(ind) ELSE ind
             ELSE /\ ii' = 0
                  /\ x' = IF drop THEN DropFirst(x) ELSE x
                  /\ ind' = IF drop THEN DropFirst(ind) ELSE ind
          /\ length' = IF drop THEN length - 1 ELSE length
    /\ maxPeaks' = MaxPeaksOf(length')
    /\ peak_loc' = Zeros(maxPeaks')
    /\ peak_mag' = Zeros(maxPeaks')
    /\ c_ind' = 0
    /\ pc' = "loop"
    /\ UNCHANGED <<args, x0, s, thresh, dx0, min_mag, temp_loc, outp, ret,
                   caller>>

\* lines 189-206: the loop test and the peak half of an iteration
PeakStep ==
    /\ pc = "loop"
    /\ LoopTest(ii, length)
    /\ ii' = ii + 1
    /\ IF ii' >= Len(x)
       THEN /\ Raise("IndexError")
            /\ UNCHANGED <<temp_mag, temp_loc, found_peak>>
       ELSE LET reset == ResetCond(found_peak, At(x, ii'), LastSlot(peak_mag),
                                   left_min, thresh)
                tm == IF reset THEN min_mag ELSE temp_mag
            IN /\ found_peak' = IF reset THEN FALSE ELSE found_peak
               /\ UNCHANGED ret
               /\ IF LastCandidate(ii', length)
                  THEN /\ pc' = "final"
                       /\ temp_mag' = tm
                       /\ UNCHANGED temp_loc
                  ELSE /\ pc' = "valley"
                       /\ IF NewPending(At(x, ii'), tm, left_min, thresh)
                          THEN temp_loc' = ii' /\ temp_mag' = At(x, ii')
                          ELSE temp_loc' = temp_loc /\ temp_mag' = tm
    /\ UNCHANGED <<args, x0, s, thresh, extr, left_min, maxPeaks, peak_loc,
                   peak_mag, c_ind, outp, caller>>

\* line 189: the loop test fails
LoopExit ==
    /\ pc = "loop"
    /\ ~LoopTest(ii, length)
    /\ pc' = "final"
    /\ UNCHANGED <<args, x0, s, thresh, extr, scan, outp, ret, caller>>

\* lines 208-217: the valley half of an iteration
ValleyStep ==
    /\ pc = "valley"
    /\ ii' = ii + 1
    /\ IF ii' >= Len(x)
       THEN /\ Raise("IndexError")
            /\ UNCHANGED <<found_peak, left_min, peak_loc, peak_mag, c_ind>>
       ELSE IF ConfirmCond(found_peak, temp_mag, thresh, At(x, ii'))
       THEN IF c_ind >= maxPeaks
            THEN /\ Raise("IndexError")
                 /\ found_peak' = TRUE
                 /\ left_min' = At(x, ii')
                 /\ UNCHANGED <<peak_loc, peak_mag, c_ind>>
            ELSE IF temp_loc = Unbound
            THEN /\ Raise("UnboundLocalError")
                 /\ found_peak' = TRUE
                 /\ left_min' = At(x, ii')
                 /\ UNCHANGED <<peak_loc, peak_mag, c_ind>>
            ELSE /\ found_peak' = TRUE
                 /\ left_min' = At(x, ii')
                 /\ peak_loc' = [peak_loc EXCEPT ![c_ind + 1] = temp_loc]
                 /\ peak_mag' = [peak_mag EXCEPT ![c_ind + 1] = temp_mag]
                 /\ c_ind' = c_ind + 1
                 /\ pc' = "loop"
                 /\ UNCHANGED ret
       ELSE /\ left_min' = IF At(x, ii') < left_min THEN At(x, ii') ELSE left_min
            /\ pc' = "loop"
            /\ UNCHANGED <<found_peak, peak_loc, peak_mag, c_ind, ret>>
    /\ UNCHANGED <<args, x0, s, thresh, extr, temp_mag, temp_loc, maxPeaks,
                   outp, caller>>

\* lines 219-228: the end point
Finalizer ==
    /\ pc = "final"
    /\ LET last == At(x, Len(x) - 1)
           end == EndPointCond(last, temp_mag, left_min, thresh)
           pend == ~end /\ PendingCond(found_peak, temp_mag, min_mag)
       IN IF ~end /\ ~pend
          THEN /\ pc' = "output"
               /\ UNCHANGED <<peak_loc, peak_mag, c_ind, ret>>
          ELSE IF c_ind >= maxPeaks
          THEN /\ Raise("IndexError")
               /\ UNCHANGED <<peak_loc, peak_mag, c_ind>>
          ELSE IF pend /\ temp_loc = Unbound
          THEN /\ Raise("UnboundLocalError")
               /\ UNCHANGED <<peak_loc, peak_mag, c_ind>>
          ELSE /\ peak_loc' = [peak_loc EXCEPT
                                 ![c_ind + 1] = IF end THEN length - 1 ELSE temp_loc]
               /\ peak_mag' = [peak_mag EXCEPT
                                 ![c_ind + 1] = IF end THEN last ELSE temp_mag]
               /\ c_ind' = c_ind + 1
               /\ pc' = "output"
               /\ UNCHANGED ret
    /\ UNCHANGED <<args, x0, s, thresh, extr, temp_mag, temp_loc, found_peak,
                   left_min, ii, maxPeaks, outp, caller>>

\* lines 230-232
CreateOutput ==
    /\ pc = "output"
    /\ peak_inds' = Gather(ind, peak_loc, c_ind)
    /\ peak_mags' = Prefix(peak_mag, c_ind)
    /\ out_type' = "ndarray"
    /\ pc' = "denorm"
    /\ UNCHANGED <<args, x0, s, thresh, extr, scan, ret, caller>>

\* lines 233-240: at most two candidates
Degenerate ==
    /\ pc = "classify"
    /\ ~(length > 2)
    /\ LET x_ind == ArgMax(x)
       IN IF DegenerateCond(At(x, x_ind), min_mag, thresh)
          THEN /\ peak_mags' = <<At(x, x_ind)>>
               /\ peak_inds' = <<At(ind, x_ind)>>
               /\ out_type' = "scalar"
          ELSE /\ peak_mags' = <<>>
               /\ peak_inds' = <<>>
               /\ out_type' = "list"
    /\ pc' = "denorm"
    /\ UNCHANGED <<args, x0, s, thresh, extr, scan, ret, caller>>

\* lines 242-245
Denormalize ==
    /\ pc = "denorm"
    /\ IF extrema < 0
       THEN IF CanNegate(out_type)
            THEN /\ peak_mags' = Scale(0 - 1, peak_mags)
                 /\ x0' = Scale(0 - 1, x0)
                 /\ pc' = "return"
                 /\ UNCHANGED ret
            ELSE /\ Raise("TypeError")
                 /\ UNCHANGED <<peak_mags, x0>>
       ELSE /\ pc' = "return"
            /\ UNCHANGED <<peak_mags, x0, ret>>
    /\ UNCHANGED <<args, s, thresh, extr, scan, peak_inds, out_type, caller>>

\* lines 247-251
Return ==
    /\ pc = "return"
    /\ IF HasLen(out_type)
       THEN ret' = [status |-> "ok", inds |-> peak_inds, mags |-> peak_mags]
       ELSE ret' = Raised("TypeError")
    /\ pc' = "done"
    /\ UNCHANGED <<args, x0, s, thresh, extr, scan, outp, caller>>

\* ------------------------------------------------ the caller's next call
\* a new frame: every local of the previous one is gone
NewFrame ==
    /\ pc' = "entry"
    /\ x0' = <<>> /\ s' = 0 /\ thresh' = 0
    /\ dx0' = <<>> /\ ind' = <<>> /\ x' = <<>> /\ length' = 0 /\ min_mag' = 0
    /\ temp_mag' = 0 /\ temp_loc' = Unbound /\ found_peak' = FALSE
    /\ left_min' = 0 /\ ii' = 0
    /\ maxPeaks' = 0 /\ peak_loc' = <<>> /\ peak_mag' = <<>> /\ c_ind' = 0
    /\ peak_inds' = <<>> /\ peak_mags' = <<>> /\ out_type' = "none"
    /\ ret' = NoResult
    /\ calls' = calls + 1
    /\ first' = ret

\* the same call once more, on the buffer as the first call left it
CallAgain ==
    /\ pc = "done" /\ calls = 1
    /\ follow' = "same"
    /\ NewFrame
    /\ UNCHANGED <<args, passed>>

\* after a call for minima: the call for maxima on the negated signal
CallMirror ==
    /\ pc = "done" /\ calls = 1
    /\ extrema = 0 - 1
    /\ follow' = "mirror"
    /\ buf' = Scale(0 - 1, buf)
    /\ passed' = buf'
    /\ extrema' = 1
    /\ NewFrame
    /\ UNCHANGED <<ndim, dtype, threshArg>>

\* after a call without threshold: the call with (max - min) / 4 given
CallExplicit ==
    /\ pc = "done" /\ calls = 1
    /\ threshArg = <<>>
    /\ follow' = "explicit"
    /\ threshArg' = <<SeqMax(buf) - SeqMin(buf)>>
    /\ NewFrame
    /\ UNCHANGED <<buf, ndim, dtype, extrema, passed>>

Next ==
    \/ CheckShape
    \/ SetThresh
    \/ CheckPolarity
    \/ Normalize
    \/ Extract
    \/ Bootstrap
    \/ PeakStep
    \/ LoopExit
    \/ ValleyStep
    \/ Finalizer
    \/ CreateOutput
    \/ Degenerate
    \/ Denormalize
    \/ Return
    \/ CallAgain
    \/ CallMirror
    \/ CallExplicit

Spec == Init /\ [][Next]_vars

\* -------------------------------------- single calls on longer signals
DeepSignals == SeqsUpTo(0..DeepVal, DeepLen)

DeepThresholds == {<<>>, <<ThreshDen>>}

InitDeep ==
    /\ buf \in DeepSignals
    /\ ndim = 1
    /\ dtype \in Dtypes
    /\ threshArg \in DeepThresholds
    /\ extrema \in {0 - 1, 1}
    /\ pc = "entry"
    /\ FreshFrame
    /\ calls = 1 /\ follow = "none" /\ first = NoResult /\ passed = buf

NextCall ==
    \/ CheckShape
    \/ SetThresh
    \/ CheckPolarity
    \/ Normalize
    \/ Extract
    \/ Bootstrap
    \/ PeakStep
    \/ LoopExit
    \/ ValleyStep
    \/ Finalizer
    \/ CreateOutput
    \/ Degenerate
    \/ Denormalize
    \/ Return

SpecDeep == InitDeep /\ [][NextCall]_vars

\* ------------------------------ a call that is never left unfinished
\* maxima, default threshold
InitLive ==
    /\ InitDeep
    /\ threshArg = <<>>
    /\ extrema = 1

\* the interpreter always takes the next step of a running call
SpecLive == InitLive /\ [][NextCall]_vars /\ WF_vars(NextCall)

\* ---------------------------------------------------------- properties
Done == pc = "done"

ValidCall == ndim = 1 /\ extrema \in {0 - 1, 1}

Ok(inds, mags) == [status |-> "ok", inds |-> inds, mags |-> mags]

StrictlyIncreasing(q) == \A i \in 1..(Len(q) - 1) : q[i] < q[i + 1]

\* the given threshold clears: a > b + t, t in quarters
Clears(a, b, t) == ThreshDen * a > ThreshDen * b + t

\* C1: for a strictly increasing signal of at least two samples, a given
\* threshold t >= 0 and maxima, the call returns exactly the Peak Record
\* (last index, last sample) if last > first + t, and the empty sequence
\* otherwise.
C1_MonotoneRamp ==
    (/\ Done /\ ndim = 1 /\ extrema = 1 /\ threshArg # <<>>
     /\ Len(buf) >= 2 /\ StrictlyIncreasing(buf))
    => ret = IF Clears(buf[Len(buf)], buf[1], threshArg[1])
             THEN Ok(<<Len(buf) - 1>>, <<buf[Len(buf)]>>)
             ELSE Ok(<<>>, <<>>)

\* the range of the signal is at most the threshold in force
SubThreshold ==
    /\ threshArg # <<>>
    /\ ThreshDen * (SeqMax(buf) - SeqMin(buf)) <= threshArg[1]

Flat == SeqMax(buf) = SeqMin(buf)

\* C2: when no extremum clears the threshold (a flat signal, or a signal
\* whose range is at most the threshold) a valid call of either polarity
\* returns the empty sequence and raises nothing.
C2_EmptyIsNotAnError ==
    (Done /\ ValidCall /\ (Flat \/ SubThreshold)) => ret = Ok(<<>>, <<>>)

\* C3: every call with a rank-1 signal of length >= 1 and a valid polarity
\* reaches its return statement: it ends without an error.
C3_Total ==
    (Done /\ ValidCall) => ret.status = "ok"

\* C4: the call for minima on S gives what the call for maxima on -S gives,
\* with the same indices and the magnitudes negated.
C4_MinimaMirrorsMaxima ==
    (Done /\ follow = "mirror")
    => first = [status |-> ret.status, inds |-> ret.inds,
                mags |-> Scale(0 - 1, ret.mags)]

\* C5: the indices a call returns are strictly increasing, each is a
\* position of the signal, and the sample there is the returned magnitude.
C5_IndicesIncreasing ==
    (Done /\ ret.status = "ok")
    => /\ Len(ret.inds) = Len(ret.mags)
       /\ StrictlyIncreasing(ret.inds)
       /\ \A k \in DOMAIN ret.inds :
            /\ ret.inds[k] \in 0..(Len(buf) - 1)
            /\ At(buf, ret.inds[k]) = ret.mags[k]

C5_Witness ==
    /\ Done /\ ret.status = "ok" /\ Len(ret.inds) >= 2 /\ extrema = 0 - 1

\* C6: a returned maximum that lies on a run of equal samples is returned
\* at the first sample of the run; and a run of equal samples that rises
\* above both its neighbours by more than the given threshold is returned
\* as exactly one peak, at its first sample (as [0, 5, 5, 5, 0] with
\* threshold 1 gives one peak at index 1).
C6_PlateauFirst ==
    (Done /\ ndim = 1 /\ extrema = 1)
    => /\ ret.status = "ok" =>
            \A k \in DOMAIN ret.inds :
                ret.inds[k] = 0 \/ At(buf, ret.inds[k] - 1) # At(buf, ret.inds[k])
       /\ (/\ threshArg # <<>>
           /\ Len(buf) >= 4
           /\ buf[1] = buf[Len(buf)]
           /\ \A i \in 2..(Len(buf) - 1) : buf[i] = buf[2]
           /\ Clears(buf[2], buf[1], threshArg[1]))
          => ret = Ok(<<1>>, <<buf[2]>>)

\* C7: the call without threshold gives what the call with the threshold
\* (max(S) - min(S)) / 4 gives on the same signal and polarity.
C7_DefaultThreshold ==
    (Done /\ follow = "explicit") => ret = first

C7_Witness ==
    /\ Done /\ follow = "explicit" /\ ret.status = "ok" /\ ret.inds # <<>>
    /\ threshArg[1] > 0

\* the locals the steps after the entry checks assign are still unassigned
NothingComputed ==
    /\ dx0 = <<>> /\ ind = <<>> /\ x = <<>>
    /\ peak_loc = <<>> /\ peak_mag = <<>> /\ c_ind = 0
    /\ peak_inds = <<>> /\ peak_mags = <<>> /\ out_type = "none"

\* C8: a signal of rank 2 or more makes the call fail with the shape error
\* whatever its contents, threshold and polarity, and the call never gets
\* to the threshold default, the differencing or the scan.
C8_InvalidShape ==
    ndim >= 2
    => /\ pc \in {"entry", "done"}
       /\ Done => ret = Raised("ValueError")
       /\ NothingComputed

C8_Witness ==
    /\ Done /\ ndim >= 2 /\ ret = Raised("ValueError")
    /\ extrema \notin {0 - 1, 1} /\ threshArg = <<>>

\* C9, as stated: a polarity outside {1, -1} makes the call fail with the
\* polarity error.
C9_AsStated ==
    (Done /\ extrema \notin {0 - 1, 1}) => ret = Raised("AssertionError")

\* C9, amended: with a rank-1 signal, a polarity outside {1, -1} makes the
\* call fail with the polarity error, before the signal is sign-normalized
\* or scanned, and no Peak Record is produced.
C9_InvalidPolarity ==
    (ndim = 1 /\ extrema \notin {0 - 1, 1})
    => /\ pc \in {"entry", "thresh", "polarity", "done"}
       /\ Done => ret = Raised("AssertionError")
       /\ x0 \in {<<>>, buf}
       /\ NothingComputed

C9_Witness ==
    /\ Done /\ ndim = 1 /\ extrema \notin {0 - 1, 1}
    /\ ret = Raised("AssertionError")

\* C10: a call leaves the caller's buffer as it was passed, and the same
\* call made a second time on it gives what the first gave.
C10_BufferUnchanged ==
    /\ buf = passed
    /\ (Done /\ follow = "same") => ret = first

C10_Witness ==
    /\ Done /\ follow = "same" /\ extrema = 0 - 1
    /\ ret.status = "ok" /\ ret.inds # <<>>
    /\ \E i \in 1..(Len(buf) - 1) : buf[i] = buf[i + 1]

\* C11: acceptance is strict.  For maxima on [a, b, a] with b > a and a
\* given threshold t, the result is [(1, b)] if b - a > t and empty if
\* b - a <= t; and in the degenerate branch a maximum that is exactly the
\* minimum + t gives no Peak Record.
C11_StrictAcceptance ==
    /\ (/\ Done /\ ndim = 1 /\ extrema = 1 /\ threshArg # <<>>
        /\ Len(buf) = 3 /\ buf[1] = buf[3] /\ buf[2] > buf[1])
       => ret = IF Clears(buf[2], buf[1], threshArg[1])
                THEN Ok(<<1>>, <<buf[2]>>)
                ELSE Ok(<<>>, <<>>)
    /\ (/\ pc = "denorm" /\ out_type \in {"scalar", "list"}
        /\ ThreshDen * SeqMax(x) = ThreshDen * SeqMin(x0) + thresh)
       => out_type = "list" /\ peak_inds = <<>> /\ peak_mags = <<>>

C11_Witness ==
    /\ Done /\ ndim = 1 /\ extrema = 1 /\ threshArg # <<>> /\ threshArg[1] > 0
    /\ Len(buf) = 3 /\ buf[1] = buf[3]
    /\ ThreshDen * buf[2] = ThreshDen * buf[1] + threshArg[1]
    /\ ret = Ok(<<>>, <<>>)

\* C12: in a peak step with found_peak true the pending state is reset
\* exactly when the new candidate exceeds the magnitude of the last
\* confirmed Peak Record, or left_min is below that magnitude - thresh.
C12_ResetAgainstLastConfirmed ==
    [][(pc = "loop" /\ LoopTest(ii, length) /\ found_peak /\ c_ind >= 1)
       => LET xi == At(x, ii + 1)
              last == peak_mag[c_ind]
          IN (found_peak' = FALSE)
             <=> (xi > last
                  \/ ThreshDen * left_min < ThreshDen * last - thresh)]_vars

\* C13: a valley step emits a Peak Record if and only if found_peak is
\* false and temp_mag > thresh + x[ii]; the record is the pending
\* (ind[temp_loc], temp_mag), and the step sets found_peak and
\* left_min = x[ii].  A valley step that does not confirm changes nothing
\* but left_min, which can only go down to x[ii]; and found_peak is cleared
\* by peak steps only.
C13_ValleyConfirms ==
    [][/\ pc = "valley"
          => LET xi == At(x, ii + 1)
             IN IF ~found_peak /\ ThreshDen * temp_mag > thresh + ThreshDen * xi
                THEN /\ c_ind' = c_ind + 1
                     /\ peak_loc' = [peak_loc EXCEPT ![c_ind'] = temp_loc]
                     /\ peak_mag' = [peak_mag EXCEPT ![c_ind'] = temp_mag]
                     /\ At(ind', peak_loc'[c_ind']) = At(ind, temp_loc)
                     /\ found_peak' = TRUE
                     /\ left_min' = xi
                ELSE /\ c_ind' = c_ind
                     /\ peak_loc' = peak_loc
                     /\ peak_mag' = peak_mag
                     /\ found_peak' = found_peak
                     /\ left_min' = IF xi < left_min THEN xi ELSE left_min
       /\ (found_peak /\ ~found_peak') => pc = "loop"]_vars

C13_Witness ==
    /\ pc = "loop" /\ found_peak /\ c_ind >= 2
    /\ left_min = At(x, ii) /\ peak_mag[c_ind] = temp_mag

\* C14: the Finalizer emits at most one more Peak Record: the last
\* candidate (original index s - 1, value x[n-1]) if x[n-1] > temp_mag and
\* x[n-1] > left_min + thresh; otherwise the pending (ind[temp_loc],
\* temp_mag) if found_peak is false and temp_mag > min_mag; otherwise
\* nothing.  The records of the scan stay, and the Finalizer's record is
\* none of them.
C14_Finalizer ==
    [][pc = "final"
       => LET last == At(x, length - 1)
              end == last > temp_mag
                     /\ ThreshDen * last > ThreshDen * left_min + thresh
              pend == ~found_peak /\ temp_mag > min_mag
          IN /\ pc' = "output"
             /\ \A k \in 1..c_ind :
                    peak_loc'[k] = peak_loc[k] /\ peak_mag'[k] = peak_mag[k]
             /\ IF end
                THEN /\ c_ind' = c_ind + 1
                     /\ At(ind, peak_loc'[c_ind']) = s - 1
                     /\ peak_mag'[c_ind'] = last
                ELSE IF pend
                THEN /\ c_ind' = c_ind + 1
                     /\ peak_loc'[c_ind'] = temp_loc
                     /\ peak_mag'[c_ind'] = temp_mag
                ELSE c_ind' = c_ind
             /\ c_ind' > c_ind
                => \A k \in 1..c_ind : peak_loc[k] < peak_loc'[c_ind']]_vars

\* the Finalizer has emitted the pending candidate after two confirmations
C14_Witness ==
    /\ pc = "output" /\ ~found_peak /\ c_ind >= 3
    /\ peak_loc[c_ind] = temp_loc /\ temp_loc < length - 1

\* the plateau-resolved direction of the step from sample j to sample j+1
\* (1-based) of the working signal: a zero difference counts as a fall
Resolved(q, j) == IF q[j + 1] - q[j] > 0 THEN 1 ELSE 0 - 1

\* the interior sample indices (0-based) where the resolved derivative
\* changes sign
Turns(q) == {i \in 1..(Len(q) - 2) : Resolved(q, i) # Resolved(q, i + 1)}

\* C15: for a working signal of length s >= 1 the Candidate Subsequence
\* has strictly increasing original indices, starts with index 0, ends
\* with index s - 1, holds between them exactly the interior indices where
\* the plateau-resolved derivative changes sign, and has length >= 2.
C15_Candidates ==
    pc = "classify"
    => /\ Len(ind) >= 2 /\ Len(x) = Len(ind) /\ length = Len(x)
       /\ ind[1] = 0 /\ ind[Len(ind)] = s - 1
       /\ StrictlyIncreasing(ind)
       /\ {ind[j] : j \in 2..(Len(ind) - 1)} = Turns(x0)
       /\ \A j \in DOMAIN ind : x[j] = At(x0, ind[j])

\* rise (1) or fall (-1, a zero difference included) from candidate j to
\* candidate j+1 (1-based)
Move(q, j) == IF q[j + 1] > q[j] THEN 1 ELSE 0 - 1

\* C16: when the Candidate Subsequence has length >= 3, consecutive
\* candidate values alternate between rise and fall (a zero difference
\* counting as a fall), the first transition included; so the signs of
\* x[1] - x[0] and x[2] - x[1] differ and the bootstrap never drops a
\* candidate.
C16_Alternation ==
    /\ (pc = "classify" /\ length >= 3)
       => /\ \A j \in 1..(Len(x) - 2) : Move(x, j) # Move(x, j + 1)
          /\ ~SameSign(SignDx(x))
    /\ pc \in {"loop", "valley", "final", "output"}
       => Len(x) = Len(SignChanges(dx0)) + 2

\* C17: the scan terminates.  Every peak step and every valley step moves
\* the cursor ii up by one and reads x[ii] with 0 <= ii <= n - 1; the loop
\* is left with ii = n - 1; the Finalizer then runs, and once it has run
\* neither the scan nor the Finalizer runs again.
C17_ScanTerminates ==
    [][/\ ((pc = "loop" /\ LoopTest(ii, length)) \/ pc = "valley")
          => /\ ii' = ii + 1
             /\ 0 <= ii' /\ ii' <= length - 1 /\ ii' < Len(x)
             /\ pc' \in {"loop", "valley", "final"}
       /\ pc' = "final" => (pc = "loop" /\ ii' = length - 1)
       /\ pc = "final" => pc' = "output"
       /\ pc \in {"output", "denorm", "return", "done"}
          => pc' \notin {"loop", "valley", "final"}]_vars

\* C17, under SpecLive: a scan that has started gets to the end of the
\* Finalizer.
C17_ScanEnds == (pc = "loop") ~> (pc = "output")

C17_Witness ==
    /\ pc = "output" /\ ii = length - 1 /\ length >= 5 /\ c_ind >= 2

\* C18: for maxima and the threshold t in force (given, or the default),
\* every magnitude the call produces, on the degenerate path or in the
\* scan, is greater than min(signal) + t; so the result is empty whenever
\* max(signal) - min(signal) <= t.
C18_AboveMinPlusThresh ==
    (ndim = 1 /\ extrema = 1)
    => /\ pc \in {"denorm", "return"}
          => \A k \in DOMAIN peak_mags :
                 ThreshDen * peak_mags[k] > ThreshDen * SeqMin(buf) + thresh
       /\ (Done /\ ret.status = "ok")
          => /\ \A k \in DOMAIN ret.mags :
                   ThreshDen * ret.mags[k] > ThreshDen * SeqMin(buf) + thresh
             /\ ThreshDen * (SeqMax(buf) - SeqMin(buf)) <= thresh
                => ret.inds = <<>>

\* a result of three peaks, the last one being the end point
C18_Witness ==
    /\ Done /\ extrema = 1 /\ ret.status = "ok" /\ Len(ret.inds) >= 3
    /\ ret.inds[Len(ret.inds)] = Len(buf) - 1 /\ thresh >= ThreshDen

\* C19: during the scan and the Finalizer the number of Peak Records
\* written, c_ind, never exceeds the capacity maxPeaks = ceil(length / 2)
\* of peak_loc and peak_mag, whichever way the bootstrap started and
\* whatever the parity of length, so no call ends in an IndexError.
C19_WithinCapacity ==
    /\ pc \in {"loop", "valley", "final", "output"}
       => /\ 2 * maxPeaks \in {length, length + 1}
          /\ Len(peak_loc) = maxPeaks /\ Len(peak_mag) = maxPeaks
          /\ c_ind <= maxPeaks
    /\ ret.status # "IndexError"

\* the capacity is used up: three records in arrays of three slots
C19_Witness == pc = "output" /\ c_ind = maxPeaks /\ maxPeaks >= 3

\* the next valley step confirms a peak (line 210 is true)
Confirming ==
    /\ pc = "valley" /\ ii + 1 < Len(x)
    /\ ConfirmCond(found_peak, temp_mag, thresh, At(x, ii + 1))

\* the Finalizer emits the pending candidate (line 224 is true)
EmittingPending ==
    /\ pc = "final"
    /\ ~EndPointCond(At(x, Len(x) - 1), temp_mag, left_min, thresh)
    /\ PendingCond(found_peak, temp_mag, min_mag)

\* C20: temp_loc is assigned before it is read.  Throughout the scan a
\* temp_mag above the global minimum was recorded at the candidate temp_loc;
\* whenever a valley step confirms or the Finalizer emits the pending
\* candidate, temp_mag is above the global minimum, temp_loc is assigned, it
\* is the candidate where temp_mag was recorded and it lies after the last
\* record written, so it is not left over from before a reset; no call ends
\* in an UnboundLocalError.
C20_TempLocBound ==
    /\ pc \in {"loop", "valley", "final"}
       => /\ temp_mag >= min_mag
          /\ temp_mag > min_mag
             => /\ temp_loc # Unbound
                /\ 0 <= temp_loc /\ temp_loc <= ii
                /\ At(x, temp_loc) = temp_mag
    /\ (Confirming \/ EmittingPending)
       => /\ temp_mag > min_mag
          /\ temp_loc # Unbound
          /\ At(x, temp_loc) = temp_mag
          /\ c_ind >= 1 => temp_loc > peak_loc[c_ind]
    /\ ret.status # "UnboundLocalError"

\* a second record is about to be written from a candidate recorded after
\* the reset that followed the first
C20_Witness ==
    /\ Confirming \/ EmittingPending
    /\ c_ind >= 1 /\ temp_loc > peak_loc[c_ind] + 1

====
